---- MODULE Spec2Model ----
(***************************************************************************)
(* Model of the 2x2 matrix analyser: the quadrant rule evaluator and        *)
(* classifier (lib/utils), the data-insight aggregator (InsightsPanel),     *)
(* and the analysis route (app/api/analyze) with its analyzer fallback.     *)
(*                                                                          *)
(* A rule is a string in the source.  Here a rule text is the sequence of   *)
(* its lexical tokens; a token is a record [k, v] with k the token's kind   *)
(* (its spelling) and v the value of a numeric literal.  Coordinates are    *)
(* non-negative integers, whose toString() is one numeric literal.          *)
(***************************************************************************)
EXTENDS Integers, Sequences, FiniteSets, TLC

VARIABLES
  quadrants,   \* the ordered quadrant list handed to the classifier and the views
  point,       \* the position <<x, y>> a component asks the classifier about
  lastCall,    \* the last getQuadrantForItem call: its result and effects
  result,      \* the AnalysisResult the AnalysisResults component displays
  viewMode,    \* AnalysisResults' viewMode state: chart, table or insights
  view,        \* what the component rendered for result in viewMode
  hasApiKey,   \* whether process.env.OPENAI_API_KEY is set on the server
  analyses,    \* the in-memory store's analyses, in insertion order
  idsIssued,   \* how many ids generateId has produced
  exchange,    \* the last request POST /api/analyze handled, and its response
  now,         \* the server's clock, in days
  dbFiles,     \* the in-memory store's files (db.files), in insertion order
  lastCleanup, \* whether cleanup has run; the cutoff and removals of its last run
  health,      \* the last response of GET /api/health
  uploadedFiles, \* the client store's uploadedFiles, in insertion order
  isProcessing,  \* HomePage's isProcessing state
  activeTab,     \* the client store's activeTab: text or files
  drop,          \* the onDrop call suspended at its await, if any
  alerts,        \* the alert() dialogs HomePage has raised, oldest first
  started,       \* the files processFile has been called with, oldest first
  fileIds,       \* how many ids generateId has produced in the browser
  drops,         \* how many times onDrop has been called
  inputText,      \* the client store's inputText
  isAnalyzing,    \* the client store's isAnalyzing
  analysisResult, \* the client store's analysisResult (present FALSE: null)
  analysisError,  \* the client store's analysisError ("": null)
  inFlight,       \* the bodies of the fetches of handleAnalyze not yet settled
  sent            \* how many requests handleAnalyze has sent

vars == <<quadrants, point, lastCall, result, viewMode, view,
          hasApiKey, analyses, idsIssued, exchange,
          now, dbFiles, lastCleanup, health,
          uploadedFiles, isProcessing, activeTab, drop, alerts, started,
          fileIds, drops,
          inputText, isAnalyzing, analysisResult, analysisError, inFlight, sent>>

classifyVars == <<quadrants, point, lastCall>>
resultVars == <<result, viewMode, view>>
apiVars == <<hasApiKey, analyses, idsIssued, exchange,
             now, dbFiles, lastCleanup, health>>
uploadVars == <<uploadedFiles, isProcessing, activeTab, drop, alerts, started,
                fileIds, drops>>
analysisVars == <<inputText, isAnalyzing, analysisResult, analysisError, inFlight, sent>>

(***************************************************************************)
(* Tokens                                                                   *)
(***************************************************************************)
Tok(k, v) == [k |-> k, v |-> v]
T(k) == Tok(k, 0)
Num(v) == Tok("num", v)

RelOps == {"<", "<=", ">", ">="}
EqOps == {"==", "!="}
\* Identifiers a rule text may name besides x and y: alert is a function of
\* the page's global scope, foo is bound nowhere.
GlobalFunctions == {"alert"}
UnboundNames == {"foo"}
Identifiers == GlobalFunctions \cup UnboundNames

(***************************************************************************)
(* Values of the evaluated expression.  Booleans are kept as the numbers    *)
(* 0 and 1 (their numeric coercion, with the same truthiness).              *)
(***************************************************************************)
NumVal(n) == [t |-> "num", n |-> n]
UndefVal == [t |-> "undef", n |-> 0]
FnVal == [t |-> "fn", n |-> 0]
BoolVal(b) == NumVal(IF b THEN 1 ELSE 0)

Truthy(v) == (v.t = "fn") \/ (v.t = "num" /\ v.n # 0)

\* a < b and friends: undefined and functions coerce to NaN, and every
\* relational comparison with NaN is false.
Relational(op, a, b) ==
  IF a.t # "num" \/ b.t # "num" THEN FALSE
  ELSE CASE op = "<" -> a.n < b.n
         [] op = "<=" -> a.n <= b.n
         [] op = ">" -> a.n > b.n
         [] op = ">=" -> a.n >= b.n

LooseEquals(a, b) ==
  IF a.t = "num" /\ b.t = "num" THEN a.n = b.n ELSE a.t = b.t

Equality(op, a, b) ==
  IF op = "==" THEN LooseEquals(a, b) ELSE ~LooseEquals(a, b)

(***************************************************************************)
(* new Function('return ' + expression)(): the expression is parsed whole   *)
(* and then evaluated.  The operators below parse and evaluate in one pass  *)
(* over the tokens: live says whether the sub-expression is evaluated       *)
(* (it is not once an operand short-circuits or a ReferenceError has been   *)
(* thrown).  A result is [ok, rest, val, calls, thrown]: ok is whether the  *)
(* tokens parse, rest the tokens left, val the value, calls the number of   *)
(* global functions invoked, thrown whether evaluation threw.               *)
(***************************************************************************)
ParseFail == [ok |-> FALSE, rest |-> <<>>, val |-> UndefVal, calls |-> 0, thrown |-> FALSE]
Parsed(rest, val, calls, thrown) ==
  [ok |-> TRUE, rest |-> rest, val |-> val, calls |-> calls, thrown |-> thrown]

NextIs(toks, kinds) == toks # <<>> /\ Head(toks).k \in kinds

RECURSIVE ParseOr(_, _), ParseOrTail(_, _), ParseAnd(_, _), ParseAndTail(_, _)
RECURSIVE ParseEq(_, _), ParseEqTail(_, _), ParseRel(_, _), ParseRelTail(_, _)
RECURSIVE ParsePrimary(_, _)

\* f(arg): the call happens when the callee is bound and the argument did
\* not throw; calling an unbound name throws.
CallResult(arg, live, bound) ==
  IF ~arg.ok \/ ~NextIs(arg.rest, {")"}) THEN ParseFail
  ELSE Parsed(Tail(arg.rest), UndefVal,
              arg.calls + (IF live /\ bound /\ ~arg.thrown THEN 1 ELSE 0),
              live /\ (~bound \/ arg.thrown))

\* identifier, or identifier ( [expression] ): the callee is resolved before
\* the argument is evaluated, so an unbound name throws first.
ParseIdentifier(toks, live) ==
  LET bound == Head(toks).k \in GlobalFunctions
      after == Tail(toks)
  IN IF NextIs(after, {"("})
     THEN CallResult(IF NextIs(Tail(after), {")"})
                     THEN Parsed(Tail(after), UndefVal, 0, FALSE)
                     ELSE ParseOr(Tail(after), live /\ bound),
                     live, bound)
     ELSE Parsed(after, IF bound THEN FnVal ELSE UndefVal, 0, live /\ ~bound)

\* ( expression ): r is the expression's result
Parenthesized(r) ==
  IF r.ok /\ NextIs(r.rest, {")"}) THEN [r EXCEPT !.rest = Tail(r.rest)] ELSE ParseFail

ParsePrimary(toks, live) ==
  IF toks = <<>> THEN ParseFail
  ELSE CASE Head(toks).k = "num" -> Parsed(Tail(toks), NumVal(Head(toks).v), 0, FALSE)
         [] Head(toks).k = "(" -> Parenthesized(ParseOr(Tail(toks), live))
         [] Head(toks).k \in Identifiers -> ParseIdentifier(toks, live)
         [] OTHER -> ParseFail

\* left op right, with val the value of the operation
Binary(left, right, val) ==
  IF ~right.ok THEN ParseFail
  ELSE Parsed(right.rest, val, left.calls + right.calls, left.thrown \/ right.thrown)

RelationalOf(left, right) ==
  Binary(left, right, BoolVal(Relational(Head(left.rest).k, left.val, right.val)))

ParseRelTail(left, live) ==
  IF ~left.ok \/ ~NextIs(left.rest, RelOps) THEN left
  ELSE ParseRelTail(
         RelationalOf(left, ParsePrimary(Tail(left.rest), live /\ ~left.thrown)),
         live)

ParseRel(toks, live) == ParseRelTail(ParsePrimary(toks, live), live)

EqualityOf(left, right) ==
  Binary(left, right, BoolVal(Equality(Head(left.rest).k, left.val, right.val)))

ParseEqTail(left, live) ==
  IF ~left.ok \/ ~NextIs(left.rest, EqOps) THEN left
  ELSE ParseEqTail(
         EqualityOf(left, ParseRel(Tail(left.rest), live /\ ~left.thrown)),
         live)

ParseEq(toks, live) == ParseEqTail(ParseRel(toks, live), live)

\* a && b: the value is a when a is falsy
AndOf(left, right) ==
  Binary(left, right, IF Truthy(left.val) THEN right.val ELSE left.val)

\* a && b: b is evaluated only when a is truthy.
ParseAndTail(left, live) ==
  IF ~left.ok \/ ~NextIs(left.rest, {"&&"}) THEN left
  ELSE ParseAndTail(
         AndOf(left, ParseEq(Tail(left.rest), live /\ ~left.thrown /\ Truthy(left.val))),
         live)

ParseAnd(toks, live) == ParseAndTail(ParseEq(toks, live), live)

\* a || b: the value is a when a is truthy
OrOf(left, right) ==
  Binary(left, right, IF Truthy(left.val) THEN left.val ELSE right.val)

\* a || b: b is evaluated only when a is falsy.
ParseOrTail(left, live) ==
  IF ~left.ok \/ ~NextIs(left.rest, {"||"}) THEN left
  ELSE ParseOrTail(
         OrOf(left, ParseAnd(Tail(left.rest), live /\ ~left.thrown /\ ~Truthy(left.val))),
         live)

ParseOr(toks, live) == ParseOrTail(ParseAnd(toks, live), live)

\* The outcome of running the expression whose parse is r: a SyntaxError
\* before anything runs, a ReferenceError part-way, or a value.
Outcome(r) ==
  IF ~r.ok \/ r.rest # <<>>
  THEN [outcome |-> "SyntaxError", truthy |-> FALSE, calls |-> 0]
  ELSE IF r.thrown
  THEN [outcome |-> "ReferenceError", truthy |-> FALSE, calls |-> r.calls]
  ELSE [outcome |-> "value", truthy |-> Truthy(r.val), calls |-> r.calls]

RunExpression(toks) == Outcome(ParseOr(toks, TRUE))

\* rule.replace(/x/g, x.toString()).replace(/y/g, y.toString())
SubstituteXY(rule, x, y) ==
  [i \in DOMAIN rule |->
     IF rule[i].k = "x" THEN Num(x)
     ELSE IF rule[i].k = "y" THEN Num(y)
     ELSE rule[i]]

\* evaluateQuadrantRule: the catch turns every exception into false.
Caught(run) ==
  [value |-> run.outcome = "value" /\ run.truthy,
   outcome |-> run.outcome,
   calls |-> run.calls]

evaluateQuadrantRule(rule, x, y) == Caught(RunExpression(SubstituteXY(rule, x, y)))

(***************************************************************************)
(* Quadrants.  A quadrant is [id, name, implication, rule, color]; name is  *)
(* the template `${xLevel} / ${yLevel}` kept as its four parts.  The        *)
(* description text is left out: nothing reads it.                          *)
(***************************************************************************)
Rule(a, op1, m, conn, b, op2, n) ==
  <<T(a), T(op1), Num(m), T(conn), T(b), T(op2), Num(n)>>

\* Variant: the high-x/high-y region opens at x > 50, leaving x = 50 out.
generateDefaultQuadrants_StrictHigh(xLabel, yLabel) ==
  << [id |-> "Q1", name |-> <<"High", xLabel, "High", yLabel>>,
      implication |-> "High priority items requiring immediate attention",
      rule |-> Rule("x", ">", 50, "&&", "y", ">=", 50), color |-> "#ef4444"],
     [id |-> "Q2", name |-> <<"Low", xLabel, "High", yLabel>>,
      implication |-> "Important but not urgent items",
      rule |-> Rule("x", "<", 50, "&&", "y", ">=", 50), color |-> "#f97316"],
     [id |-> "Q3", name |-> <<"Low", xLabel, "Low", yLabel>>,
      implication |-> "Low priority items that can be deprioritized",
      rule |-> Rule("x", "<", 50, "&&", "y", "<", 50), color |-> "#22c55e"],
     [id |-> "Q4", name |-> <<"High", xLabel, "Low", yLabel>>,
      implication |-> "Items that may need attention but are not critical",
      rule |-> Rule("x", ">=", 50, "&&", "y", "<", 50), color |-> "#3b82f6"] >>

generateDefaultQuadrants(xLabel, yLabel) ==
  << [id |-> "Q1", name |-> <<"High", xLabel, "High", yLabel>>,
      implication |-> "High priority items requiring immediate attention",
      rule |-> Rule("x", ">=", 50, "&&", "y", ">=", 50), color |-> "#ef4444"],
     [id |-> "Q2", name |-> <<"Low", xLabel, "High", yLabel>>,
      implication |-> "Important but not urgent items",
      rule |-> Rule("x", "<", 50, "&&", "y", ">=", 50), color |-> "#f97316"],
     [id |-> "Q3", name |-> <<"Low", xLabel, "Low", yLabel>>,
      implication |-> "Low priority items that can be deprioritized",
      rule |-> Rule("x", "<", 50, "&&", "y", "<", 50), color |-> "#22c55e"],
     [id |-> "Q4", name |-> <<"High", xLabel, "Low", yLabel>>,
      implication |-> "Items that may need attention but are not critical",
      rule |-> Rule("x", ">=", 50, "&&", "y", "<", 50), color |-> "#3b82f6"] >>

\* The loop of getQuadrantForItem from quadrant i on: the index of the first
\* quadrant whose rule evaluates to true, 0 for null.
RECURSIVE FirstMatchFrom(_, _, _, _)
FirstMatchFrom(i, x, y, qs) ==
  IF i > Len(qs) THEN 0
  ELSE IF evaluateQuadrantRule(qs[i].rule, x, y).value THEN i
  ELSE FirstMatchFrom(i + 1, x, y, qs)

\* Variant: the loop keeps going and returns the last quadrant that matches.
getQuadrantForItem_LastMatch(x, y, qs) ==
  LET matches == { i \in 1..Len(qs) : evaluateQuadrantRule(qs[i].rule, x, y).value }
  IN IF matches = {} THEN 0
     ELSE CHOOSE i \in matches : \A j \in matches : j <= i

getQuadrantForItem(x, y, qs) == FirstMatchFrom(1, x, y, qs)

\* The rule evaluations one getQuadrantForItem call performs, in order: the
\* loop stops at the quadrant it returns.
RuleEvaluations(x, y, qs) ==
  LET ret == getQuadrantForItem(x, y, qs)
      last == IF ret = 0 THEN Len(qs) ELSE ret
  IN [i \in 1..last |-> evaluateQuadrantRule(qs[i].rule, x, y)]

RECURSIVE SumCalls(_, _)
SumCalls(evals, i) ==
  IF i > Len(evals) THEN 0 ELSE evals[i].calls + SumCalls(evals, i + 1)

(***************************************************************************)
(* Inputs of the classifier: the quadrant lists a caller may pass (the      *)
(* default set, or any custom list of rule texts) and the points.           *)
(***************************************************************************)
MaxQuadrants == 2

RuleLibrary ==
  << Rule("x", ">=", 50, "&&", "y", ">=", 50),
     Rule("x", "<", 50, "&&", "y", ">=", 50),
     Rule("x", ">=", 50, "&&", "y", "<", 50),
     <<T("x"), T(">"), Num(50)>>,
     \* y <= 10 || x == 100
     Rule("y", "<=", 10, "||", "x", "==", 100),
     \* (x > 50 || y != 50) && y < 90
     <<T("("), T("x"), T(">"), Num(50), T("||"), T("y"), T("!="), Num(50), T(")"),
       T("&&"), T("y"), T("<"), Num(90)>>,
     \* (x > 50        unbalanced parenthesis
     <<T("("), T("x"), T(">"), Num(50)>>,
     \* x >            missing operand
     <<T("x"), T(">")>>,
     \* x > 50 && alert(1)
     <<T("x"), T(">"), Num(50), T("&&"), T("alert"), T("("), Num(1), T(")")>>,
     \* x = 50         assignment
     <<T("x"), T("="), Num(50)>>,
     \* foo > 1 || y > 50
     <<T("foo"), T(">"), Num(1), T("||"), T("y"), T(">"), Num(50)>> >>

CustomIds == <<"Q1", "Q2", "Q3", "Q4", "Q5">>
CustomColors == <<"#111111", "#222222", "#333333", "#444444", "#555555">>

CustomQuadrant(i, r) ==
  [id |-> CustomIds[i], name |-> <<"Custom", CustomIds[i], "Custom", CustomIds[i]>>,
   implication |-> "custom", rule |-> RuleLibrary[r], color |-> CustomColors[i]]

CustomQuadrantSets ==
  UNION { { [i \in 1..n |-> CustomQuadrant(i, pick[i])] :
              pick \in [1..n -> 1..Len(RuleLibrary)] } : n \in 0..MaxQuadrants }

AxisLabels == {<<"Probability", "Impact">>, <<"Importance", "Urgency">>}

DefaultQuadrantSets == { generateDefaultQuadrants(l[1], l[2]) : l \in AxisLabels }

Coords == {0, 10, 49, 50, 51, 90, 100}

NoCall == [called |-> FALSE, ret |-> 0, evals |-> <<>>, calls |-> 0]

\* A component calls getQuadrantForItem(x, y, quadrants) for the point.
Classify ==
  LET evals == RuleEvaluations(point[1], point[2], quadrants)
  IN /\ lastCall' = [called |-> TRUE,
                     ret |-> getQuadrantForItem(point[1], point[2], quadrants),
                     evals |-> evals,
                     calls |-> SumCalls(evals, 1)]
     /\ UNCHANGED <<quadrants, point>>

(***************************************************************************)
(* IEEE-754 doubles.  The thresholds items.length * 0.4, * 0.7 and * 0.3    *)
(* are double products.  A double is its 53-bit mantissa, kept as three     *)
(* base-2^18 limbs, and an exponent e: the value is mantissa * 2^-e.        *)
(***************************************************************************)
LimbBase == 2^18

\* 0.4 = 0x1.999999999999ap-2, 0.7 = 0x1.6666666666666p-1, 0.3 = 0x1.3333333333333p-2
Double04 == [m2 |-> 104857, m1 |-> 157286, m0 |-> 104858, e |-> 54]
Double07 == [m2 |-> 91750, m1 |-> 104857, m0 |-> 157286, e |-> 53]
Double03 == [m2 |-> 78643, m1 |-> 52428, m0 |-> 209715, e |-> 54]

RECURSIVE BitLength(_)
BitLength(v) == IF v = 0 THEN 0 ELSE 1 + BitLength(v \div 2)

\* n * d for an integer 0 <= n < 2^13 and a double d: the exact product,
\* rounded to 53 significant bits, to nearest, ties to even.
TimesDouble(n, d) ==
  LET p0 == n * d.m0
      p1 == n * d.m1 + p0 \div LimbBase
      p2 == n * d.m2 + p1 \div LimbBase
      l0 == p0 % LimbBase
      l1 == p1 % LimbBase
      s == BitLength(p2) - 17
      unit == 2^s
      low == l0 % unit
      odd == (l0 \div unit) % 2 = 1
      up == s > 0 /\ (2 * low > unit \/ (2 * low = unit /\ odd))
      r0 == l0 - low + (IF up THEN unit ELSE 0)
      r1 == l1 + r0 \div LimbBase
      r2 == p2 + r1 \div LimbBase
  IN IF n = 0 THEN [m2 |-> 0, m1 |-> 0, m0 |-> 0, e |-> d.e]
     ELSE [m2 |-> r2, m1 |-> r1 % LimbBase, m0 |-> r0 % LimbBase, e |-> d.e]

\* c > f for an integer c and a double f
IntGreaterThan(c, f) == c * 2^(f.e - 36) > f.m2

(***************************************************************************)
(* Items are [name, x, y, confidence]; confidence is kept in hundredths     *)
(* (90 is the JSON number 0.9), so item.confidence > 0.8 is confidence > 80.*)
(***************************************************************************)
RECURSIVE SumOf(_, _)
SumOf(seq, i) == IF i > Len(seq) THEN 0 ELSE seq[i] + SumOf(seq, i + 1)

\* sum / count as computed by reduce(...) / length: NaN for 0 / 0.
Average(sum, count) == [nan |-> count = 0, sum |-> sum, count |-> count]

\* Variant: a NaN average passes the comparison.
AverageGreaterThan_NaNPasses(avg, k) == avg.nan \/ avg.sum > k * avg.count

\* Variant: the comparison is avg >= k.
AverageGreaterThan_AtLeast(avg, k) == ~avg.nan /\ avg.sum >= k * avg.count

\* avg > k: every comparison with NaN is false.
AverageGreaterThan(avg, k) == ~avg.nan /\ avg.sum > k * avg.count

\* Variant: the confidence of the first item stands for all.
overallConfidence_FirstItem(items) ==
  IF Len(items) > 0
  THEN [num |-> items[1].confidence, den |-> 100]
  ELSE [num |-> 0, den |-> 1]

\* analyzeContent's overall confidence: the mean of the item confidences
\* as the exact ratio num / den, 0 for no items.
overallConfidence(items) ==
  IF Len(items) > 0
  THEN [num |-> SumOf([i \in 1..Len(items) |-> items[i].confidence], 1),
        den |-> 100 * Len(items)]
  ELSE [num |-> 0, den |-> 1]

(***************************************************************************)
(* generateDataInsights (InsightsPanel).  An insight is [type, title,       *)
(* named, items]: named is the name of the quadrant the description         *)
(* quotes, items the related items (empty where the source sets none).      *)
(* The percentages and counts formatted into the descriptions are left out. *)
(***************************************************************************)
Insight(type, title, named, items) ==
  [type |-> type, title |-> title, named |-> named, items |-> items]

\* itemQuadrant?.id === id, for the quadrant (or null) at index i of qs
IdIs(i, qs, id) == i # 0 /\ qs[i].id = id

\* items.filter(item => getQuadrantForItem(item.x, item.y, quadrants)?.id === q.id)
ItemsInQuadrant(items, qs, q) ==
  SelectSeq(items, LAMBDA item : IdIs(getQuadrantForItem(item.x, item.y, qs), qs, q.id))

quadrantCounts(items, qs) ==
  [i \in 1..Len(qs) |-> [quadrant |-> qs[i], items |-> ItemsInQuadrant(items, qs, qs[i])]]

\* quadrantCounts.reduce((max, current) =>
\*   current.items.length > max.items.length ? current : max), from element i on
RECURSIVE ReduceMax(_, _, _)
ReduceMax(counts, i, max) ==
  IF i > Len(counts) THEN max
  ELSE ReduceMax(counts, i + 1,
                 IF Len(counts[i].items) > Len(max.items) THEN counts[i] ELSE max)

maxQuadrantOf(counts) == ReduceMax(counts, 2, counts[1])

ClusteringInsight(maxQuadrant) ==
  << Insight("distribution", <<"Clustering Detected">>,
             maxQuadrant.quadrant.name, maxQuadrant.items) >>

\* Variant: the threshold is "at least 40%".
DistributionOf_AtLeast(maxQuadrant, items) ==
  IF 5 * Len(maxQuadrant.items) >= 2 * Len(items)
  THEN ClusteringInsight(maxQuadrant)
  ELSE <<>>

\* if (maxQuadrant.items.length > items.length * 0.4) insights.push(...)
DistributionOf(maxQuadrant, items) ==
  IF IntGreaterThan(Len(maxQuadrant.items), TimesDouble(Len(items), Double04))
  THEN ClusteringInsight(maxQuadrant)
  ELSE <<>>

DistributionInsight(items, qs) ==
  DistributionOf(maxQuadrantOf(quadrantCounts(items, qs)), items)

HighConfidenceInsight(items) ==
  LET highConfidenceItems == SelectSeq(items, LAMBDA item : item.confidence > 80)
  IN IF IntGreaterThan(Len(highConfidenceItems), TimesDouble(Len(items), Double07))
     THEN << Insight("confidence", <<"High Analysis Confidence">>, <<>>,
                     highConfidenceItems) >>
     ELSE <<>>

\* Variant: the threshold is "at least 30%".
LowConfidenceInsight_AtLeast(items) ==
  LET lowConfidenceItems == SelectSeq(items, LAMBDA item : item.confidence < 60)
  IN IF 10 * Len(lowConfidenceItems) >= 3 * Len(items)
     THEN << Insight("confidence", <<"Some Uncertain Positions">>, <<>>,
                     lowConfidenceItems) >>
     ELSE <<>>

LowConfidenceInsight(items) ==
  LET lowConfidenceItems == SelectSeq(items, LAMBDA item : item.confidence < 60)
  IN IF IntGreaterThan(Len(lowConfidenceItems), TimesDouble(Len(items), Double03))
     THEN << Insight("confidence", <<"Some Uncertain Positions">>, <<>>,
                     lowConfidenceItems) >>
     ELSE <<>>

\* Variant: positions 10 and 90 count as extreme.
OutlierInsight_Inclusive(items) ==
  LET outliers == SelectSeq(items, LAMBDA item :
                    (item.x >= 90 \/ item.x <= 10) \/ (item.y >= 90 \/ item.y <= 10))
  IN IF Len(outliers) > 0
     THEN << Insight("outliers", <<"Extreme Positions Identified">>, <<>>, outliers) >>
     ELSE <<>>

OutlierInsight(items) ==
  LET outliers == SelectSeq(items, LAMBDA item :
                    (item.x > 90 \/ item.x < 10) \/ (item.y > 90 \/ item.y < 10))
  IN IF Len(outliers) > 0
     THEN << Insight("outliers", <<"Extreme Positions Identified">>, <<>>, outliers) >>
     ELSE <<>>

PatternInsights(items, axes) ==
  LET xAverage == Average(SumOf([i \in 1..Len(items) |-> items[i].x], 1), Len(items))
      yAverage == Average(SumOf([i \in 1..Len(items) |-> items[i].y], 1), Len(items))
  IN (IF AverageGreaterThan(xAverage, 60)
      THEN << Insight("patterns", <<"High", axes.x, "Tendency">>, <<>>, <<>>) >>
      ELSE <<>>)
     \o
     (IF AverageGreaterThan(yAverage, 60)
      THEN << Insight("patterns", <<"High", axes.y, "Pattern">>, <<>>, <<>>) >>
      ELSE <<>>)

\* Variant: positions at 70 count as top right.
RecommendationInsight_Inclusive(items) ==
  LET topRightItems == SelectSeq(items, LAMBDA item : item.x >= 70 /\ item.y >= 70)
  IN IF Len(topRightItems) > 0
     THEN << Insight("recommendations", <<"Priority Focus Areas">>, <<>>, topRightItems) >>
     ELSE <<>>

RecommendationInsight(items) ==
  LET topRightItems == SelectSeq(items, LAMBDA item : item.x > 70 /\ item.y > 70)
  IN IF Len(topRightItems) > 0
     THEN << Insight("recommendations", <<"Priority Focus Areas">>, <<>>, topRightItems) >>
     ELSE <<>>

\* reduce without an initial value throws a TypeError on an empty array.
generateDataInsights(items, qs, axes) ==
  IF qs = <<>>
  THEN [threw |-> TRUE, insights |-> <<>>]
  ELSE [threw |-> FALSE,
        insights |-> DistributionInsight(items, qs) \o HighConfidenceInsight(items)
                     \o LowConfidenceInsight(items) \o OutlierInsight(items)
                     \o PatternInsights(items, axes) \o RecommendationInsight(items)]

(***************************************************************************)
(* analyzeContent and createMockAnalysis (lib/openai).  reply is what the   *)
(* chat completion call came to: kind "throws" (the call rejects), "empty"  *)
(* (no message content), "unparsable" (JSON.parse throws), "noaxes" (JSON   *)
(* without axes), or "ok" with the parsed axes, items and insights.  The    *)
(* wall-clock processing_time is left out of the metadata.                  *)
(***************************************************************************)
NoResult == [axes |-> [x |-> "", y |-> "", rationale |-> ""], items |-> <<>>,
             quadrants |-> <<>>, insights |-> <<>>,
             metadata |-> [confidence |-> [num |-> 0, den |-> 1]]]

analyzeContent(reply) ==
  IF reply.kind # "ok"
  THEN [threw |-> TRUE, result |-> NoResult]
  ELSE [threw |-> FALSE,
        result |-> [axes |-> reply.axes,
                    items |-> reply.items,
                    quadrants |-> generateDefaultQuadrants(reply.axes.x, reply.axes.y),
                    insights |-> reply.insights,
                    metadata |-> [confidence |-> overallConfidence(reply.items)]]]

ItemA == [name |-> "Item A", x |-> 75, y |-> 85, confidence |-> 90]
ItemB == [name |-> "Item B", x |-> 25, y |-> 65, confidence |-> 80]
ItemC == [name |-> "Item C", x |-> 60, y |-> 30, confidence |-> 70]

createMockAnalysis(domain) ==
  LET axes == [x |-> IF domain = "risk" THEN "Probability" ELSE "Importance",
               y |-> IF domain = "risk" THEN "Impact" ELSE "Urgency",
               rationale |-> "These variables provide the best separation of items in the content"]
  IN [axes |-> axes,
      items |-> <<ItemA, ItemB, ItemC>>,
      quadrants |-> generateDefaultQuadrants(axes.x, axes.y),
      insights |-> << "Most items cluster in the high-impact region",
                      "There is a clear separation between high and low probability items",
                      "Focus attention on the high-probability, high-impact quadrant first" >>,
      metadata |-> [confidence |-> [num |-> 8, den |-> 10]]]

(***************************************************************************)
(* The views of AnalysisResults: the chart with its QuadrantLegend, the     *)
(* DataTable, the InsightsPanel.                                            *)
(***************************************************************************)
Null == [id |-> "null", name |-> <<>>, implication |-> "", rule |-> <<>>, color |-> ""]

\* The value getQuadrantForItem returns: the quadrant, or null.
QuadrantAt(i, qs) == IF i = 0 THEN Null ELSE qs[i]

QuadrantOrNull(x, y, qs) == QuadrantAt(getQuadrantForItem(x, y, qs), qs)

\* Variant: the badge reads the quadrant's fields without the null check.
QuadrantBadge_NoNullCheck(quadrant) ==
  [threw |-> quadrant = Null, text |-> quadrant.name, color |-> quadrant.color]

\* DataTable's QuadrantBadge
QuadrantBadge(quadrant) ==
  IF quadrant = Null
  THEN [threw |-> FALSE, text |-> <<"-">>, color |-> ""]
  ELSE [threw |-> FALSE, text |-> quadrant.name, color |-> quadrant.color]

\* DataTable's enhancedItems
enhancedItems(items, qs) ==
  [i \in 1..Len(items) |->
     [item |-> items[i], quadrant |-> QuadrantOrNull(items[i].x, items[i].y, qs)]]

\* filtered.sort by the default sort field, confidence, descending (stable)
RECURSIVE InsertByConfidence(_, _)
InsertByConfidence(row, sorted) ==
  IF sorted = <<>> THEN <<row>>
  ELSE IF row.item.confidence > Head(sorted).item.confidence THEN <<row>> \o sorted
  ELSE <<Head(sorted)>> \o InsertByConfidence(row, Tail(sorted))

RECURSIVE processedItems(_)
processedItems(rows) ==
  IF rows = <<>> THEN <<>>
  ELSE InsertByConfidence(rows[Len(rows)], processedItems(SubSeq(rows, 1, Len(rows) - 1)))

\* one table row per processed item, with its QuadrantBadge
TableRows(rows) ==
  [i \in 1..Len(rows) |->
     [item |-> rows[i].item, badge |-> QuadrantBadge(rows[i].quadrant)]]

DataTable(items, qs) == TableRows(processedItems(enhancedItems(items, qs)))

\* QuadrantLegend's getItemsInQuadrant, for every quadrant of the list
QuadrantLegend(items, qs) ==
  [i \in 1..Len(qs) |-> ItemsInQuadrant(items, qs, qs[i])]

\* plotData's marker colour of an item: the first quadrant whose id passes
\* the position test written for that id
RECURSIVE FindByPosition(_, _, _)
FindByPosition(item, qs, i) ==
  IF i > Len(qs) THEN "#3b82f6"
  ELSE LET q == qs[i]
           hit == CASE q.id = "Q1" -> item.x >= 50 /\ item.y >= 50
                    [] q.id = "Q2" -> item.x < 50 /\ item.y >= 50
                    [] q.id = "Q3" -> item.x < 50 /\ item.y < 50
                    [] q.id = "Q4" -> item.x >= 50 /\ item.y < 50
                    [] OTHER -> FALSE
       IN IF hit THEN q.color ELSE FindByPosition(item, qs, i + 1)

plotData(res) == [i \in 1..Len(res.items) |-> FindByPosition(res.items[i], res.quadrants, 1)]

BlankView == [mode |-> "", crashed |-> FALSE, colors |-> <<>>, legend |-> <<>>,
              rows |-> <<>>, dataInsights |-> <<>>]

\* What AnalysisResults renders for res in the given view mode; a throw in a
\* child component takes the whole view down.
TableView(rows) ==
  [BlankView EXCEPT !.mode = "table", !.rows = rows,
                    !.crashed = \E i \in 1..Len(rows) : rows[i].badge.threw]

InsightsView(g) ==
  [BlankView EXCEPT !.mode = "insights", !.crashed = g.threw, !.dataInsights = g.insights]

Render(mode, res) ==
  CASE mode = "chart" ->
         [BlankView EXCEPT !.mode = mode, !.colors = plotData(res),
                           !.legend = QuadrantLegend(res.items, res.quadrants)]
    [] mode = "table" -> TableView(DataTable(res.items, res.quadrants))
    [] mode = "insights" ->
         InsightsView(generateDataInsights(res.items, res.quadrants, res.axes))

ViewModes == {"chart", "table", "insights"}

\* onClick={() => setViewMode(mode)}, and the render that follows
setViewMode(mode) ==
  /\ viewMode' = mode
  /\ view' = Render(mode, result)
  /\ UNCHANGED result

(***************************************************************************)
(* POST /api/analyze (app/api/analyze/route).  A request body is            *)
(* [parsable, text, domain_hint]: parsable is whether request.json()        *)
(* succeeds, text is [present, length, trimmed] (the text's length and its  *)
(* trimmed length), domain_hint is "" when absent, force_axes is [x, y]     *)
(* with "" for a label that is absent.                                      *)
(***************************************************************************)
NoForcedAxes == [x |-> "", y |-> ""]

\* createAnalysisPrompt's axesInstruction: the labels the model is told it
\* must use, none when it is told to choose.  The forced labels reach the
\* prompt and nothing else.
createAnalysisPrompt(forceAxes) ==
  IF forceAxes.x # "" /\ forceAxes.y # "" THEN forceAxes ELSE NoForcedAxes

validDomains == {"risk", "priority", "investments", "sports", "auto"}

DomainOf(body) == IF body.domain_hint = "" THEN "auto" ELSE body.domain_hint

\* Variant: the length test reads the text as sent, without trim().
ValidationError_NoTrim(body) ==
  IF ~body.text.present \/ body.text.length < 10
  THEN "Text content is required and must be at least 10 characters long"
  ELSE IF body.text.length > 50000
  THEN "Text content exceeds maximum length of 50,000 characters"
  ELSE IF DomainOf(body) \notin validDomains
  THEN "Invalid domain hint"
  ELSE ""

\* lines 11-34: the error message of the 400 response, "" for a valid request
ValidationError(body) ==
  IF ~body.text.present \/ body.text.trimmed < 10
  THEN "Text content is required and must be at least 10 characters long"
  ELSE IF body.text.length > 50000
  THEN "Text content exceeds maximum length of 50,000 characters"
  ELSE IF DomainOf(body) \notin validDomains
  THEN "Invalid domain hint"
  ELSE ""

FallbackNote ==
  "Note: This is a demonstration analysis. Configure OpenAI API key for full AI-powered analysis."
DemoNote ==
  "Demo Mode: This is sample analysis. Configure OpenAI API key for AI-powered analysis."

\* Variant: the note is unshifted twice.
MockWithNote_Twice(domain, note) ==
  [createMockAnalysis(domain) EXCEPT !.insights = <<note, note>> \o @]

\* createMockAnalysis(...) followed by insights.unshift(note)
MockWithNote(domain, note) ==
  LET mock == createMockAnalysis(domain)
  IN [mock EXCEPT !.insights = <<note>> \o mock.insights]

\* Variant: the route awaits analyzeContent without the inner try/catch.
RunAnalysis_NoFallback(hasKey, domain, forceAxes, reply) ==
  IF hasKey
  THEN LET a == analyzeContent(reply)
       IN [failed |-> a.threw, result |-> a.result, invoked |-> TRUE,
           axesInstruction |-> createAnalysisPrompt(forceAxes), usedMock |-> FALSE]
  ELSE [failed |-> FALSE, result |-> MockWithNote(domain, DemoNote),
        invoked |-> FALSE, axesInstruction |-> NoForcedAxes, usedMock |-> TRUE]

\* lines 36-68: the real analysis when a key is set, the mock analysis when
\* it is not or when analyzeContent throws.  failed is an exception leaving
\* the block, invoked whether analyzeContent was called, axesInstruction
\* what its prompt said about the axes, usedMock whether the result is
\* createMockAnalysis's.  analyzeContent is given body.force_axes and uses
\* it for the prompt; createMockAnalysis is given the text and the domain.
RunAnalysis(hasKey, domain, forceAxes, reply) ==
  IF hasKey
  THEN LET a == analyzeContent(reply)
       IN IF a.threw
          THEN [failed |-> FALSE, result |-> MockWithNote(domain, FallbackNote),
                invoked |-> TRUE, axesInstruction |-> createAnalysisPrompt(forceAxes),
                usedMock |-> TRUE]
          ELSE [failed |-> FALSE, result |-> a.result, invoked |-> TRUE,
                axesInstruction |-> createAnalysisPrompt(forceAxes), usedMock |-> FALSE]
  ELSE [failed |-> FALSE, result |-> MockWithNote(domain, DemoNote),
        invoked |-> FALSE, axesInstruction |-> NoForcedAxes, usedMock |-> TRUE]

\* lines 85-93; the timestamp is left out
WithMetadata(res, analysisId, domain, body, hasKey) ==
  [res EXCEPT !.metadata =
     [confidence |-> res.metadata.confidence,
      analysisId |-> analysisId,
      domain |-> domain,
      textLength |-> body.text.length,
      usingMockData |-> ~hasKey]]

NoExchange ==
  [handled |-> FALSE,
   body |-> [parsable |-> FALSE, text |-> [present |-> FALSE, length |-> 0, trimmed |-> 0],
             domain_hint |-> "", force_axes |-> NoForcedAxes],
   reply |-> "", status |-> 0, error |-> "", result |-> NoResult,
   analyzerInvoked |-> FALSE, axesInstruction |-> NoForcedAxes,
   usedMock |-> FALSE, stored |-> FALSE]

Responded(body, reply, status, error) ==
  [NoExchange EXCEPT !.handled = TRUE, !.body = body, !.reply = reply.kind,
                     !.status = status, !.error = error]

MaxAnalyses == 1
MaxMocks == 2

\* Variant: an exception of storeAnalysisResult reaches the outer catch.
POST_StorageFatal(body, reply, storeFails) ==
  /\ IF ~body.parsable
     THEN /\ exchange' = Responded(body, reply, 500, "Internal server error during analysis")
          /\ UNCHANGED <<analyses, idsIssued>>
     ELSE IF ValidationError(body) # ""
     THEN /\ exchange' = Responded(body, reply, 400, ValidationError(body))
          /\ UNCHANGED <<analyses, idsIssued>>
     ELSE LET domain == DomainOf(body)
              run == RunAnalysis(hasApiKey, domain, body.force_axes, reply)
              analysisId == idsIssued + 1
              final == WithMetadata(run.result, analysisId, domain, body, hasApiKey)
          IN IF run.failed
             THEN /\ exchange' = [Responded(body, reply, 500, "Internal server error during analysis")
                                    EXCEPT !.analyzerInvoked = run.invoked,
                                           !.axesInstruction = run.axesInstruction]
                  /\ UNCHANGED <<analyses, idsIssued>>
             ELSE IF storeFails
             THEN /\ exchange' = [Responded(body, reply, 500, "Internal server error during analysis")
                                    EXCEPT !.analyzerInvoked = run.invoked,
                                           !.axesInstruction = run.axesInstruction]
                  /\ idsIssued' = analysisId
                  /\ UNCHANGED analyses
             ELSE /\ idsIssued' = analysisId
                  /\ analyses' = IF storeFails THEN analyses
                                 ELSE Append(analyses,
                                             [id |-> analysisId, textLength |-> body.text.length,
                                              domain |-> domain, result |-> final,
                                              createdAt |-> now])
                  /\ exchange' = [Responded(body, reply, 200, "")
                                    EXCEPT !.result = final,
                                           !.analyzerInvoked = run.invoked,
                                           !.axesInstruction = run.axesInstruction,
                                           !.usedMock = run.usedMock,
                                           !.stored = ~storeFails]
  /\ UNCHANGED <<hasApiKey, now, dbFiles, lastCleanup, health>>

\* The whole handler, for one request, one outcome of the analyzer call and
\* one outcome of the store.  The stored entry holds the object the
\* handler goes on to give its metadata, so it ends with the metadata too.
POST(body, reply, storeFails) ==
  /\ IF ~body.parsable
     THEN /\ exchange' = Responded(body, reply, 500, "Internal server error during analysis")
          /\ UNCHANGED <<analyses, idsIssued>>
     ELSE IF ValidationError(body) # ""
     THEN /\ exchange' = Responded(body, reply, 400, ValidationError(body))
          /\ UNCHANGED <<analyses, idsIssued>>
     ELSE LET domain == DomainOf(body)
              run == RunAnalysis(hasApiKey, domain, body.force_axes, reply)
              analysisId == idsIssued + 1
              final == WithMetadata(run.result, analysisId, domain, body, hasApiKey)
          IN IF run.failed
             THEN /\ exchange' = [Responded(body, reply, 500, "Internal server error during analysis")
                                    EXCEPT !.analyzerInvoked = run.invoked,
                                           !.axesInstruction = run.axesInstruction]
                  /\ UNCHANGED <<analyses, idsIssued>>
             ELSE /\ idsIssued' = analysisId
                  /\ analyses' = IF storeFails THEN analyses
                                 ELSE Append(analyses,
                                             [id |-> analysisId, textLength |-> body.text.length,
                                              domain |-> domain, result |-> final,
                                              createdAt |-> now])
                  /\ exchange' = [Responded(body, reply, 200, "")
                                    EXCEPT !.result = final,
                                           !.analyzerInvoked = run.invoked,
                                           !.axesInstruction = run.axesInstruction,
                                           !.usedMock = run.usedMock,
                                           !.stored = ~storeFails]
  /\ UNCHANGED <<hasApiKey, now, dbFiles, lastCleanup, health>>

Text(length, trimmed) == [present |-> TRUE, length |-> length, trimmed |-> trimmed]

\* no text; 9 characters; 12 characters of which 9 remain after trim; 10;
\* 50,000 and 50,001 characters
Texts ==
  { [present |-> FALSE, length |-> 0, trimmed |-> 0],
    Text(9, 9), Text(12, 9), Text(10, 10), Text(50000, 50000), Text(50001, 50001) }

DomainHints == {"", "risk", "priority", "auto", "bogus"}

ForcedAxes == [x |-> "Cost", y |-> "Benefit"]

\* one body request.json() rejects, every text with every hint, and valid
\* requests that force the axis labels
Bodies ==
  { [parsable |-> FALSE, text |-> Text(10, 10), domain_hint |-> "",
     force_axes |-> NoForcedAxes] }
  \cup { [parsable |-> TRUE, text |-> t, domain_hint |-> d, force_axes |-> NoForcedAxes] :
            t \in Texts, d \in DomainHints }
  \cup { [parsable |-> TRUE, text |-> Text(10, 10), domain_hint |-> d,
          force_axes |-> ForcedAxes] : d \in {"", "risk"} }

FailedReply(kind) == [kind |-> kind, axes |-> [x |-> "", y |-> "", rationale |-> ""],
                      items |-> <<>>, insights |-> <<>>]

(***************************************************************************)
(* Specifications                                                           *)
(***************************************************************************)
MaxItems == 4
MaxBatches == 9

ItemD == [name |-> "Item D", x |-> 95, y |-> 50, confidence |-> 50]
ItemPool == {ItemA, ItemB, ItemC, ItemD}

\* An item on the edges of the range the outlier test leaves out, with the
\* confidence the low-confidence test leaves out.
ItemE == [name |-> "Item E", x |-> 10, y |-> 90, confidence |-> 60]

\* Items on the edges x = 70 and y = 70 of the top-right test, and a second
\* item inside it.
ItemF == [name |-> "Item F", x |-> 70, y |-> 80, confidence |-> 85]
ItemG == [name |-> "Item G", x |-> 80, y |-> 70, confidence |-> 85]
ItemH == [name |-> "Item H", x |-> 80, y |-> 80, confidence |-> 100]

ItemCollections == UNION { [1..n -> ItemPool] : n \in 0..MaxItems }

\* Collections in which the largest region holds exactly 40% of the items
\* (2 of 5 and 4 of 10), and one in which exactly 30% of the items (3 of 10)
\* have confidence below 0.6; collections with an item at x = 10, y = 90;
\* collections whose mean y is exactly 60; collections with items at x = 70
\* and at y = 70.
BoundaryCollections ==
  { <<ItemA, ItemD, ItemB, ItemB, ItemC>>,
    <<ItemA, ItemA, ItemA, ItemA, ItemB, ItemB, ItemB, ItemC, ItemC, ItemC>>,
    <<ItemD, ItemA, ItemA, ItemD, ItemA, ItemA, ItemB, ItemD, ItemB, ItemC>>,
    <<ItemE>>,
    <<ItemE, ItemD>>,
    <<ItemC, ItemE>>,
    <<ItemA, ItemA, ItemD, ItemD, ItemC>>,
    <<ItemF, ItemG>>,
    <<ItemH, ItemF, ItemA, ItemG>> }

PayloadAxes == [x |-> "Probability", y |-> "Impact", rationale |-> "chosen by the analyzer"]

OkReply(items) ==
  [kind |-> "ok", axes |-> PayloadAxes, items |-> items, insights |-> <<"Actionable insight 1">>]

\* The quadrant lists a displayed result may carry: the default set, no
\* quadrant at all, a single region that leaves most of the plane
\* unclassified, and two overlapping regions.
ViewQuadrantSets ==
  { generateDefaultQuadrants(PayloadAxes.x, PayloadAxes.y),
    <<>>,
    <<CustomQuadrant(1, 1)>>,
    <<CustomQuadrant(1, 4), CustomQuadrant(2, 5)>> }

Repeat(item, n) == [i \in 1..n |-> item]

\* Large collections: h batches of seven high-confidence items followed by
\* l batches of three items of confidence 0.8.
BatchCollections ==
  { Repeat(ItemA, 7 * h) \o Repeat(ItemB, 3 * l) : h \in 0..MaxBatches, l \in 0..MaxBatches }

\* An item of an analyzer payload outside the coordinate and confidence
\* ranges the prompt asks for.
ItemOut == [name |-> "Item Out", x |-> 150, y |-> -5, confidence |-> 150]

\* A payload whose axes are the labels the request forced.
CompliantReply ==
  [OkReply(<<ItemA>>) EXCEPT
     !.axes = [x |-> ForcedAxes.x, y |-> ForcedAxes.y, rationale |-> "as instructed"]]

Replies ==
  { FailedReply(kind) : kind \in {"throws", "empty", "unparsable", "noaxes"} }
  \cup { OkReply(items) : items \in {<<>>, <<ItemA>>, <<ItemD, ItemB>>, <<ItemA, ItemOut>>} }
  \cup { CompliantReply }

(***************************************************************************)
(* Upload flow: fileProcessor's validateFile and processFile, and           *)
(* HomePage.onDrop.  A File is a record [name, type, size, readable,        *)
(* chars]: readable tells whether the FileReader and the format parser      *)
(* succeed on its bytes, chars is the length of the text they find.  A text *)
(* is represented by its length; every text of the pool is at most 200      *)
(* characters, where createPreview returns the text itself.                 *)
(***************************************************************************)
maxSize == 10 * 1024 * 1024

PlainText == "text/plain"
Pdf == "application/pdf"
Docx == "application/vnd.openxmlformats-officedocument.wordprocessingml.document"
MsWord == "application/msword"

allowedTypes == {PlainText, Pdf, Docx, MsWord}

validateFile_NoSizeLimit(file) ==
  IF file.type \notin allowedTypes
  THEN [valid |-> FALSE,
        error |-> "File type not supported. Please use PDF, DOCX, DOC, or TXT files."]
  ELSE [valid |-> TRUE, error |-> ""]

validateFile(file) ==
  IF file.size > maxSize
  THEN [valid |-> FALSE, error |-> "File size must be less than 10MB"]
  ELSE IF file.type \notin allowedTypes
  THEN [valid |-> FALSE,
        error |-> "File type not supported. Please use PDF, DOCX, DOC, or TXT files."]
  ELSE [valid |-> TRUE, error |-> ""]

\* processTextFile / processPDFFile / processWordFile: the extracted text, or
\* the message of the Error the promise rejects with.
Extraction(file) ==
  IF file.type = PlainText
  THEN IF ~file.readable THEN [content |-> 0, error |-> "File reading failed"]
       ELSE IF file.chars = 0 THEN [content |-> 0, error |-> "Failed to read text file"]
       ELSE [content |-> file.chars, error |-> ""]
  ELSE IF file.type = Pdf
  THEN IF ~file.readable THEN [content |-> 0, error |-> "PDF processing failed"]
       ELSE [content |-> file.chars, error |-> ""]
  ELSE IF file.type \in {Docx, MsWord}
  THEN IF ~file.readable THEN [content |-> 0, error |-> "Word file reading failed"]
       ELSE IF file.chars < 100
       THEN [content |-> 0, error |-> "Could not extract text from Word document"]
       ELSE [content |-> file.chars, error |-> ""]
  ELSE [content |-> 0, error |-> "Unsupported file type"]

createPreview(content) == content

processFile(file, id) ==
  [id |-> id, name |-> file.name, type |-> file.type, size |-> file.size,
   content |-> Extraction(file).content,
   preview |-> createPreview(Extraction(file).content),
   error |-> Extraction(file).error]

NoDrop == [active |-> FALSE, acceptedFiles |-> <<>>, awaiting |-> 0, fileId |-> 0]

NextAccepted_StopAtRejected(files, i) ==
  IF i > Len(files) THEN i
  ELSE IF validateFile(files[i]).valid THEN i
  ELSE Len(files) + 1

\* The first position from i on whose file validateFile accepts, or
\* Len(files) + 1: where the for loop of onDrop next reaches its await.
RECURSIVE NextAccepted(_, _)
NextAccepted(files, i) ==
  IF i > Len(files) THEN i
  ELSE IF validateFile(files[i]).valid THEN i
  ELSE NextAccepted(files, i + 1)

\* The alerts the loop raises on its way over positions i .. j - 1.
RECURSIVE RejectionAlerts(_, _, _)
RejectionAlerts(files, i, j) ==
  IF i >= j THEN <<>>
  ELSE <<[name |-> files[i].name, message |-> validateFile(files[i]).error]>>
       \o RejectionAlerts(files, i + 1, j)

\* The for loop of onDrop from position `from` up to its next await at
\* position `at`, or to the end of the handler when no file is left.
RunLoop(files, from, at) ==
  /\ alerts' = alerts \o RejectionAlerts(files, from, at)
  /\ IF at <= Len(files)
     THEN /\ fileIds' = fileIds + 1
          /\ started' = Append(started, files[at])
          /\ drop' = [active |-> TRUE, acceptedFiles |-> files,
                      awaiting |-> at, fileId |-> fileIds + 1]
          /\ isProcessing' = TRUE
          /\ UNCHANGED activeTab
     ELSE /\ drop' = NoDrop
          /\ isProcessing' = FALSE
          /\ activeTab' = IF Len(files) > 0 THEN "files" ELSE activeTab
          /\ UNCHANGED <<fileIds, started>>

MaxDrops == 1
MaxBatch == 2

\* Files are dropped while no earlier drop is still being processed.
onDrop(acceptedFiles) ==
  /\ ~drop.active
  /\ drops < MaxDrops
  /\ drops' = drops + 1
  /\ RunLoop(acceptedFiles, 1, NextAccepted(acceptedFiles, 1))
  /\ UNCHANGED uploadedFiles

addFile(file) == uploadedFiles' = Append(uploadedFiles, file)

\* The promise of processFile settles (it never rejects): onDrop resumes,
\* adds the file to the store and goes on with the rest of the batch.
processFileSettles ==
  /\ drop.active
  /\ LET processedFile == processFile(drop.acceptedFiles[drop.awaiting], drop.fileId)
     IN addFile([id |-> processedFile.id, name |-> processedFile.name,
                 size |-> processedFile.size, type |-> processedFile.type,
                 content |-> processedFile.content,
                 preview |-> processedFile.preview])
  /\ RunLoop(drop.acceptedFiles, drop.awaiting + 1,
             NextAccepted(drop.acceptedFiles, drop.awaiting + 1))
  /\ UNCHANGED drops

setActiveTab(tab) ==
  /\ activeTab' = tab
  /\ UNCHANGED <<uploadedFiles, isProcessing, drop, alerts, started, fileIds, drops>>

FileNotes ==
  [name |-> "notes.txt", type |-> PlainText, size |-> 1024,
   readable |-> TRUE, chars |-> 150]
FileReport ==
  [name |-> "report.pdf", type |-> Pdf, size |-> maxSize,
   readable |-> TRUE, chars |-> 150]
FileScan ==
  [name |-> "scan.pdf", type |-> Pdf, size |-> 2048,
   readable |-> FALSE, chars |-> 0]
FileLetter ==
  [name |-> "letter.doc", type |-> MsWord, size |-> 4096,
   readable |-> TRUE, chars |-> 50]
FileHuge ==
  [name |-> "huge.docx", type |-> Docx, size |-> maxSize + 1,
   readable |-> TRUE, chars |-> 150]
FilePhoto ==
  [name |-> "photo.png", type |-> "image/png", size |-> 2048,
   readable |-> TRUE, chars |-> 0]

FilePool == {FileNotes, FileReport, FileScan, FileLetter, FileHuge, FilePhoto}

RECURSIVE SeqsUpTo(_, _)
SeqsUpTo(S, n) ==
  IF n = 0 THEN {<<>>}
  ELSE SeqsUpTo(S, n - 1)
       \cup { Append(s, e) : s \in { t \in SeqsUpTo(S, n - 1) : Len(t) = n - 1 }, e \in S }

Batches == SeqsUpTo(FilePool, MaxBatch)

UploadIdle ==
  /\ uploadedFiles = <<>>
  /\ isProcessing = FALSE
  /\ activeTab = "text"
  /\ drop = NoDrop
  /\ alerts = <<>>
  /\ started = <<>>
  /\ fileIds = 0
  /\ drops = 0

(***************************************************************************)
(* The analysis flow of the client: the store's canAnalyze and analysis     *)
(* actions, and HomePage.handleAnalyze.  A text is its length and trimmed   *)
(* length; the contents of files carry no outer white space.  The selected  *)
(* domain stays 'auto' and no custom axes are set.                          *)
(***************************************************************************)
canAnalyze ==
  /\ ~isAnalyzing
  /\ \/ inputText.trimmed > 10
     \/ \E k \in DOMAIN uploadedFiles : uploadedFiles[k].content > 10

\* The length of the text combineFileContents returns: for each file with
\* content, '=== name ===', an empty line and the content, joined by empty
\* lines.
RECURSIVE combineFileContents(_)
combineFileContents(uploaded) ==
  IF uploaded = <<>> THEN 0
  ELSE LET file == Head(uploaded)
           nameLength == IF file.name \in {"report.pdf", "letter.doc"} THEN 10
                         ELSE IF file.name = "scan.pdf" THEN 8 ELSE 9
           rest == combineFileContents(Tail(uploaded))
       IN IF file.content = 0 THEN rest
          ELSE (nameLength + 10 + file.content) + (IF rest = 0 THEN 0 ELSE 2 + rest)

AnalysisIdle ==
  /\ inputText = [present |-> FALSE, length |-> 0, trimmed |-> 0]
  /\ isAnalyzing = FALSE
  /\ analysisResult = [present |-> FALSE, textLength |-> 0]
  /\ analysisError = ""
  /\ inFlight = <<>>
  /\ sent = 0

MaxRequests == 2

setInputText(text) ==
  /\ inputText' = text
  /\ UNCHANGED <<isAnalyzing, analysisResult, analysisError, inFlight, sent>>

\* The text of the request body: inputText.trim(), then an empty line and
\* the combined file contents when files are uploaded.
RequestText(trimmed, hasFiles, filesText) ==
  IF ~hasFiles THEN [present |-> trimmed > 0, length |-> trimmed, trimmed |-> trimmed]
  ELSE IF trimmed = 0
  THEN [present |-> filesText > 0, length |-> filesText, trimmed |-> filesText]
  ELSE [present |-> TRUE, length |-> trimmed + 2 + filesText,
        trimmed |-> IF filesText = 0 THEN trimmed ELSE trimmed + 2 + filesText]

\* handleAnalyze up to its await of fetch: setAnalyzing(true), then
\* clearAnalysis(), which sets isAnalyzing back to false; then the request.
handleAnalyze ==
  /\ canAnalyze /\ ~isAnalyzing
  /\ sent < MaxRequests
  /\ sent' = sent + 1
  /\ isAnalyzing' = FALSE
  /\ analysisResult' = [present |-> FALSE, textLength |-> 0]
  /\ analysisError' = ""
  /\ inFlight' = Append(inFlight,
                        [parsable |-> TRUE,
                         text |-> RequestText(inputText.trimmed, uploadedFiles # <<>>,
                                              combineFileContents(uploadedFiles)),
                         domain_hint |-> "auto", force_axes |-> NoForcedAxes])
  /\ UNCHANGED inputText

\* The fetch of the k-th outstanding request settles and handleAnalyze
\* resumes: a 200 response goes to setAnalysisResult, any other response and
\* a failed fetch to setAnalysisError.
handleAnalyzeResumes(k, status) ==
  /\ k \in DOMAIN inFlight
  /\ (status = 400) <=> (ValidationError(inFlight[k]) # "")
  /\ inFlight' = SubSeq(inFlight, 1, k - 1) \o SubSeq(inFlight, k + 1, Len(inFlight))
  /\ isAnalyzing' = FALSE
  /\ IF status = 200
     THEN /\ analysisResult' = [present |-> TRUE, textLength |-> inFlight[k].text.length]
          /\ analysisError' = ""
     ELSE /\ analysisError' = "Analysis failed"
          /\ UNCHANGED analysisResult
  /\ UNCHANGED <<inputText, sent>>

(***************************************************************************)
(* The in-memory store (InMemoryDB) with its cleanup, and GET /api/health.  *)
(* Time is counted in days, the unit of olderThanDays.  A Map is the        *)
(* sequence of its entries in insertion order; set() of a key already       *)
(* present replaces the entry in place.                                     *)
(***************************************************************************)
MaxDays == 8

MapSet(entries, entry) ==
  IF \E k \in DOMAIN entries : entries[k].id = entry.id
  THEN [k \in DOMAIN entries |->
          IF entries[k].id = entry.id THEN entry ELSE entries[k]]
  ELSE Append(entries, entry)

storeUploadedFile(id, content) ==
  /\ dbFiles' = MapSet(dbFiles, [id |-> id, content |-> content, createdAt |-> now])
  /\ UNCHANGED <<hasApiKey, analyses, idsIssued, exchange, now, lastCleanup, health>>

storeAnalysisResult(id, domain) ==
  /\ analyses' = MapSet(analyses, [id |-> id, textLength |-> 10, domain |-> domain,
                                   result |-> NoResult, createdAt |-> now])
  /\ UNCHANGED <<hasApiKey, dbFiles, idsIssued, exchange, now, lastCleanup, health>>

Expired_Inclusive(entry, cutoffDate) == entry.createdAt <= cutoffDate

Expired(entry, cutoffDate) == entry.createdAt < cutoffDate

cleanup(olderThanDays) ==
  /\ dbFiles' = SelectSeq(dbFiles, LAMBDA entry : ~Expired(entry, now - olderThanDays))
  /\ analyses' = SelectSeq(analyses, LAMBDA entry : ~Expired(entry, now - olderThanDays))
  /\ lastCleanup' = [ran |-> TRUE, cutoff |-> now - olderThanDays,
                      removed |-> Len(dbFiles) + Len(analyses)
                                  - Len(dbFiles') - Len(analyses')]
  /\ UNCHANGED <<hasApiKey, idsIssued, exchange, now, health>>

\* A day passes.
Tick ==
  /\ now < MaxDays
  /\ now' = now + 1
  /\ UNCHANGED <<hasApiKey, analyses, idsIssued, exchange, dbFiles, lastCleanup, health>>

\* The chat completion call of the connection test returns choices, returns
\* none, or throws.
testOpenAIConnection(outcome) == outcome = "choices"

\* GET /api/health: services.openai, then the overall status and the HTTP
\* status derived from it.
GET(outcome) ==
  /\ LET openai == IF hasApiKey
                   THEN IF testOpenAIConnection(outcome)
                        THEN "operational" ELSE "degraded"
                   ELSE "not_configured"
     IN health' = [status |-> IF openai = "unavailable" THEN "degraded"
                              ELSE IF openai = "not_configured" THEN "partial"
                              ELSE "healthy",
                   statusCode |-> IF openai = "unavailable" THEN 503 ELSE 200,
                   openai |-> openai]
  /\ UNCHANGED <<hasApiKey, analyses, idsIssued, exchange, now, dbFiles, lastCleanup>>

ApiIdle ==
  /\ analyses = <<>>
  /\ idsIssued = 0
  /\ exchange = NoExchange
  /\ now = 0
  /\ dbFiles = <<>>
  /\ lastCleanup = [ran |-> FALSE, cutoff |-> 0, removed |-> 0]
  /\ health = [status |-> "", statusCode |-> 0, openai |-> ""]

InitClassify ==
  /\ quadrants \in DefaultQuadrantSets \cup CustomQuadrantSets
  /\ point \in Coords \X Coords
  /\ lastCall = NoCall
  /\ result = NoResult
  /\ viewMode = "chart"
  /\ view = BlankView
  /\ hasApiKey = FALSE
  /\ ApiIdle
  /\ UploadIdle
  /\ AnalysisIdle

NextClassify ==
  Classify /\ UNCHANGED resultVars /\ UNCHANGED apiVars /\ UNCHANGED uploadVars /\ UNCHANGED analysisVars

SpecClassify == InitClassify /\ [][NextClassify]_vars

DisplayInit(collections, quadrantSets) ==
  /\ quadrants = <<>>
  /\ point = <<0, 0>>
  /\ lastCall = NoCall
  /\ \E items \in collections, qs \in quadrantSets :
       result = [analyzeContent(OkReply(items)).result EXCEPT !.quadrants = qs]
  /\ viewMode = "chart"
  /\ view = Render("chart", result)
  /\ hasApiKey = FALSE
  /\ ApiIdle
  /\ UploadIdle
  /\ AnalysisIdle

NextResults ==
  \E mode \in ViewModes :
    /\ setViewMode(mode)
    /\ UNCHANGED classifyVars /\ UNCHANGED apiVars /\ UNCHANGED uploadVars /\ UNCHANGED analysisVars

InitResults == DisplayInit(ItemCollections \cup BoundaryCollections, ViewQuadrantSets)

SpecResults == InitResults /\ [][NextResults]_vars

InitBatches ==
  DisplayInit(BatchCollections, {generateDefaultQuadrants(PayloadAxes.x, PayloadAxes.y)})

SpecBatches == InitBatches /\ [][NextResults]_vars

InitApi ==
  /\ quadrants = <<>>
  /\ point = <<0, 0>>
  /\ lastCall = NoCall
  /\ result = NoResult
  /\ viewMode = "chart"
  /\ view = BlankView
  /\ hasApiKey \in BOOLEAN
  /\ ApiIdle
  /\ UploadIdle
  /\ AnalysisIdle

\* The analyzer's outcome is drawn for the requests that reach the analyzer,
\* the store's for those that reach the store.
NextApi ==
  /\ idsIssued < MaxAnalyses
  /\ \E body \in Bodies :
     \E reply \in IF body.parsable /\ ValidationError(body) = "" /\ hasApiKey
                  THEN Replies ELSE {[kind |-> "none"]},
        storeFails \in IF body.parsable /\ ValidationError(body) = ""
                       THEN BOOLEAN ELSE {FALSE} :
       /\ POST(body, reply, storeFails)
       /\ UNCHANGED classifyVars /\ UNCHANGED resultVars /\ UNCHANGED uploadVars /\ UNCHANGED analysisVars

SpecApi == InitApi /\ [][NextApi]_vars

NextServer ==
  /\ \/ \E id \in {"f1", "f2"} : storeUploadedFile(id, "text")
     \/ storeAnalysisResult(1, "auto")
     \/ \E olderThanDays \in {1, 7} : cleanup(olderThanDays)
     \/ Tick
  /\ UNCHANGED classifyVars /\ UNCHANGED resultVars /\ UNCHANGED uploadVars /\ UNCHANGED analysisVars

SpecServer == InitApi /\ [][NextServer]_vars

\* The two routes of a server whose analyses are placeholders.  Requests to
\* /api/analyze are those answered with the placeholder analysis: no key, or
\* a key and an analyzer call that fails.  /api/health runs its connection
\* test when a key is set.
NextMock ==
  /\ \/ /\ idsIssued < MaxMocks
        /\ \E hint \in {"", "risk", "auto"}, text \in {Text(10, 10), Text(50000, 50000)} :
           \E reply \in IF hasApiKey THEN {FailedReply("throws"), FailedReply("unparsable")}
                        ELSE {[kind |-> "none"]},
              storeFails \in BOOLEAN :
             POST([parsable |-> TRUE, text |-> text, domain_hint |-> hint,
                   force_axes |-> NoForcedAxes], reply, storeFails)
     \/ \E outcome \in IF hasApiKey THEN {"choices", "nochoices", "throws"}
                       ELSE {"none"} : GET(outcome)
  /\ UNCHANGED classifyVars /\ UNCHANGED resultVars /\ UNCHANGED uploadVars /\ UNCHANGED analysisVars

SpecMock == InitApi /\ [][NextMock]_vars

InitUpload ==
  /\ quadrants = <<>>
  /\ point = <<0, 0>>
  /\ lastCall = NoCall
  /\ result = NoResult
  /\ viewMode = "chart"
  /\ view = BlankView
  /\ hasApiKey = FALSE
  /\ ApiIdle
  /\ UploadIdle
  /\ AnalysisIdle

NextUpload ==
  /\ \/ \E acceptedFiles \in Batches : onDrop(acceptedFiles)
     \/ processFileSettles
     \/ \E tab \in {"text", "files", "settings"} : setActiveTab(tab)
  /\ UNCHANGED classifyVars /\ UNCHANGED resultVars /\ UNCHANGED apiVars
  /\ UNCHANGED analysisVars

SpecUpload == InitUpload /\ [][NextUpload]_vars

\* The page with nothing uploaded, with a text file uploaded, and with a PDF
\* uploaded whose extraction failed.
InitClient ==
  /\ quadrants = <<>>
  /\ point = <<0, 0>>
  /\ lastCall = NoCall
  /\ result = NoResult
  /\ viewMode = "chart"
  /\ view = BlankView
  /\ hasApiKey = FALSE
  /\ ApiIdle
  /\ AnalysisIdle
  /\ \E dropped \in {<<>>, <<FileNotes>>, <<FileScan>>} :
       /\ started = dropped
       /\ uploadedFiles = [k \in DOMAIN dropped |->
                            [id |-> k, name |-> dropped[k].name, size |-> dropped[k].size,
                             type |-> dropped[k].type,
                             content |-> processFile(dropped[k], k).content,
                             preview |-> processFile(dropped[k], k).preview]]
       /\ fileIds = Len(dropped)
       /\ drops = Len(dropped)
       /\ activeTab = IF dropped = <<>> THEN "text" ELSE "files"
  /\ isProcessing = FALSE
  /\ drop = NoDrop
  /\ alerts = <<>>

NextClient ==
  /\ \/ \E text \in {Text(0, 0), Text(12, 9), Text(11, 11), Text(50000, 50000)} :
          setInputText(text)
     \/ handleAnalyze
     \/ \E k \in DOMAIN inFlight, status \in {200, 400, 500} : handleAnalyzeResumes(k, status)
  /\ UNCHANGED classifyVars /\ UNCHANGED resultVars /\ UNCHANGED apiVars
  /\ UNCHANGED uploadVars

SpecClient == InitClient /\ [][NextClient]_vars

(***************************************************************************)
(* Properties of the classifier (SpecClassify)                              *)
(***************************************************************************)
RuleTrueAt(i) == evaluateQuadrantRule(quadrants[i].rule, point[1], point[2]).value

\* C1: getQuadrantForItem returns the quadrant of smallest index whose rule
\* is true at the point (null when none is); a later quadrant whose rule
\* also matches is never returned.
C1_FirstMatchWins ==
  lastCall.called =>
    /\ lastCall.ret \in 0..Len(quadrants)
    /\ lastCall.ret # 0 => RuleTrueAt(lastCall.ret)
    /\ \A j \in 1..Len(quadrants) :
         RuleTrueAt(j) => (lastCall.ret # 0 /\ lastCall.ret <= j)

C1_Witness ==
  /\ lastCall.called
  /\ lastCall.ret # 0
  /\ \E j \in (lastCall.ret + 1)..Len(quadrants) : RuleTrueAt(j)

SamplePoints == Coords \X Coords

MatchedCount(qs, i) ==
  Cardinality({ p \in SamplePoints : getQuadrantForItem(p[1], p[2], qs) = i })

\* C2: at every point of [0,100] x [0,100] exactly one of the four default
\* rules is true, the classifier returns a quadrant, and the per-quadrant
\* matched counts over a sample add up to the sample size.
C2_DefaultPartition ==
  quadrants \in DefaultQuadrantSets =>
    /\ Len(quadrants) = 4
    /\ Cardinality({ i \in 1..Len(quadrants) : RuleTrueAt(i) }) = 1
    /\ lastCall.called => lastCall.ret # 0
    /\ SumOf([i \in 1..Len(quadrants) |-> MatchedCount(quadrants, i)], 1)
         = Cardinality(SamplePoints)

C2_Witness ==
  /\ quadrants \in DefaultQuadrantSets
  /\ point = <<50, 50>>
  /\ lastCall.called
  /\ lastCall.ret = 1

\* C3: a rule that fails to compile is rejected when the quadrant set is
\* built, so no classification ever evaluates one and takes the failure
\* for "false".
C3_MalformedRuleRejected ==
  lastCall.called =>
    \A i \in DOMAIN lastCall.evals : lastCall.evals[i].outcome # "SyntaxError"

GrammarTokens == {"x", "y", "num", "&&", "||", "(", ")"} \cup RelOps \cup EqOps

HasDisallowedToken(rule) == \E i \in DOMAIN rule : rule[i].k \notin GrammarTokens

\* C4: a rule text with a token outside the grammar is rejected with a parse
\* error, and no part of it is evaluated or executed.
C4_DisallowedTokenRejected ==
  lastCall.called =>
    \A i \in DOMAIN lastCall.evals :
      HasDisallowedToken(quadrants[i].rule) =>
        (lastCall.evals[i].outcome = "SyntaxError" /\ lastCall.evals[i].calls = 0)

(***************************************************************************)
(* Properties of the views (SpecResults, SpecBatches)                       *)
(***************************************************************************)
Unclassified(item) ==
  \A i \in 1..Len(result.quadrants) :
    ~evaluateQuadrantRule(result.quadrants[i].rule, item.x, item.y).value

SeqRange(seq) == { seq[i] : i \in DOMAIN seq }

C8_EmptyItems ==
  result.items = <<>> =>
    /\ result.metadata.confidence.num = 0
    /\ (viewMode = "insights" /\ result.quadrants # <<>>) =>
         (~view.crashed /\ view.dataInsights = <<>>)

C8_Witness ==
  /\ result.items = <<>>
  /\ result.quadrants # <<>>
  /\ viewMode = "insights"
  /\ view.mode = "insights"

ClassifiedInto(i) ==
  SelectSeq(result.items, LAMBDA item :
    getQuadrantForItem(item.x, item.y, result.quadrants) = i)

MaxCount ==
  CHOOSE m \in 0..Len(result.items) :
    /\ \E i \in 1..Len(result.quadrants) : Len(ClassifiedInto(i)) = m
    /\ \A i \in 1..Len(result.quadrants) : Len(ClassifiedInto(i)) <= m

InsightsTitled(title) ==
  { k \in DOMAIN view.dataInsights : view.dataInsights[k].title = title }

Clustering == InsightsTitled(<<"Clustering Detected">>)

\* C9: the clustering insight is there if and only if the largest
\* per-quadrant count is strictly more than 40% of the item count; it names
\* a quadrant holding that count and lists exactly the items classified
\* into it.
C9_ClusteringThreshold ==
  (viewMode = "insights" /\ result.quadrants # <<>>) =>
    /\ Cardinality(Clustering) <= 1
    /\ Clustering # {} <=> 5 * MaxCount > 2 * Len(result.items)
    /\ \A k \in Clustering :
         \E i \in 1..Len(result.quadrants) :
           /\ Len(ClassifiedInto(i)) = MaxCount
           /\ view.dataInsights[k].named = result.quadrants[i].name
           /\ view.dataInsights[k].items = ClassifiedInto(i)

\* exactly 40%: two of five items in the fullest quadrant, no insight
C9_Witness ==
  /\ viewMode = "insights"
  /\ result.quadrants # <<>>
  /\ Len(result.items) = 5
  /\ MaxCount = 2
  /\ Clustering = {}

HighConfidence == InsightsTitled(<<"High Analysis Confidence">>)

HighItems == SelectSeq(result.items, LAMBDA item : item.confidence > 80)

\* C10: the high-confidence insight is there if and only if the items with
\* confidence above 0.8 are strictly more than 70% of all items, and it
\* lists exactly those items.
C10_HighConfidenceThreshold ==
  (viewMode = "insights" /\ ~view.crashed) =>
    /\ HighConfidence # {} <=> 10 * Len(HighItems) > 7 * Len(result.items)
    /\ \A k \in HighConfidence : view.dataInsights[k].items = HighItems

Uncertain == InsightsTitled(<<"Some Uncertain Positions">>)

LowItems == SelectSeq(result.items, LAMBDA item : item.confidence < 60)

\* C11: the uncertain-positions insight is there if and only if the items
\* with confidence below 0.6 are strictly more than 30% of all items, and it
\* lists exactly those items; its presence is decided by that count alone,
\* whatever the high-confidence insight does.
C11_LowConfidenceThreshold ==
  (viewMode = "insights" /\ ~view.crashed) =>
    /\ Cardinality(Uncertain) <= 1
    /\ Uncertain # {} <=> 10 * Len(LowItems) > 3 * Len(result.items)
    /\ \A k \in Uncertain : view.dataInsights[k].items = LowItems

\* exactly 30%: three of ten items below 0.6, and neither confidence
\* insight is there
C11_Witness ==
  /\ viewMode = "insights"
  /\ ~view.crashed
  /\ Len(result.items) = 10
  /\ Len(LowItems) = 3
  /\ Uncertain = {}
  /\ HighConfidence = {}

Extreme == InsightsTitled(<<"Extreme Positions Identified">>)

OutlierItems ==
  SelectSeq(result.items, LAMBDA item :
    item.x < 10 \/ item.x > 90 \/ item.y < 10 \/ item.y > 90)

\* C12: an item is an outlier exactly when x or y lies outside [10, 90];
\* there is one outlier insight, listing all outliers, when there is an
\* outlier, and none otherwise.
C12_Outliers ==
  (viewMode = "insights" /\ ~view.crashed) =>
    /\ Cardinality(Extreme) = (IF OutlierItems = <<>> THEN 0 ELSE 1)
    /\ \A k \in Extreme : view.dataInsights[k].items = OutlierItems

\* an item at (10, 90) next to one at (95, 50): only the second is listed
C12_Witness ==
  /\ viewMode = "insights"
  /\ ~view.crashed
  /\ result.items = <<ItemE, ItemD>>
  /\ \E k \in Extreme : view.dataInsights[k].items = <<ItemD>>

XTrend == InsightsTitled(<<"High", result.axes.x, "Tendency">>)
YTrend == InsightsTitled(<<"High", result.axes.y, "Pattern">>)

SumX == SumOf([i \in 1..Len(result.items) |-> result.items[i].x], 1)
SumY == SumOf([i \in 1..Len(result.items) |-> result.items[i].y], 1)

\* C13: for a non-empty collection the high-x insight is there if and only
\* if the mean of x is strictly above 60, the high-y insight if and only if
\* the mean of y is strictly above 60, each decided on its own.
C13_AxisTrends ==
  (viewMode = "insights" /\ ~view.crashed /\ result.items # <<>>) =>
    /\ Cardinality(XTrend) <= 1
    /\ Cardinality(YTrend) <= 1
    /\ XTrend # {} <=> SumX > 60 * Len(result.items)
    /\ YTrend # {} <=> SumY > 60 * Len(result.items)

\* mean x is 80 and mean y exactly 60: the high-x insight alone
C13_Witness ==
  /\ viewMode = "insights"
  /\ ~view.crashed
  /\ result.items # <<>>
  /\ SumX > 60 * Len(result.items)
  /\ SumY = 60 * Len(result.items)
  /\ XTrend # {}
  /\ YTrend = {}

Priority == InsightsTitled(<<"Priority Focus Areas">>)

TopRightItems == SelectSeq(result.items, LAMBDA item : item.x > 70 /\ item.y > 70)

\* C14: the recommendation insight is there if and only if some item has
\* x > 70 and y > 70, and it lists exactly those items in input order.
C14_Recommendation ==
  (viewMode = "insights" /\ ~view.crashed) =>
    /\ Cardinality(Priority) = (IF TopRightItems = <<>> THEN 0 ELSE 1)
    /\ \A k \in Priority : view.dataInsights[k].items = TopRightItems

\* items at (80,80), (70,80), (75,85), (80,70): the first and the third
\* are listed, in that order
C14_Witness ==
  /\ viewMode = "insights"
  /\ ~view.crashed
  /\ result.items = <<ItemH, ItemF, ItemA, ItemG>>
  /\ \E k \in Priority : view.dataInsights[k].items = <<ItemH, ItemA>>

\* C18: in the chart every item has the colour of the quadrant the
\* classifier returns for it, for default and custom quadrant lists alike.
C18_ChartColourFollowsClassifier ==
  viewMode = "chart" =>
    \A i \in 1..Len(result.items) :
      LET q == getQuadrantForItem(result.items[i].x, result.items[i].y, result.quadrants)
      IN q # 0 => view.colors[i] = result.quadrants[q].color

(***************************************************************************)
(* Properties of POST /api/analyze (SpecApi)                                *)
(***************************************************************************)
RequestValid(body) ==
  /\ body.parsable
  /\ body.text.present
  /\ body.text.trimmed >= 10
  /\ body.text.length <= 50000
  /\ body.domain_hint \in validDomains \cup {""}

AnalyzerFailed == ~hasApiKey \/ exchange.reply # "ok"

\* C6: for a valid request, when the analyzer is unavailable (no key) or its
\* call fails, the response is a success carrying the placeholder result in
\* full shape; the failure never becomes an error response.
C6_FallbackOnAnalyzerFailure ==
  (exchange.handled /\ RequestValid(exchange.body) /\ AnalyzerFailed) =>
    LET mock == createMockAnalysis(DomainOf(exchange.body))
    IN /\ exchange.status = 200
       /\ exchange.error = ""
       /\ exchange.result.axes = mock.axes
       /\ exchange.result.items = mock.items
       /\ exchange.result.quadrants = mock.quadrants
       /\ Len(exchange.result.quadrants) = 4
       /\ Len(exchange.result.insights) > Len(mock.insights)
       /\ exchange.result.metadata.confidence = mock.metadata.confidence

C6_Witness ==
  /\ exchange.handled
  /\ RequestValid(exchange.body)
  /\ hasApiKey
  /\ exchange.reply = "throws"
  /\ exchange.analyzerInvoked
  /\ exchange.status = 200

\* C7: the usingMockData flag of a returned result is true exactly when the
\* result is the placeholder one, with no key as well as with a key and a
\* failed analyzer call.
C7_PlaceholderFlagged ==
  (exchange.handled /\ exchange.status = 200) =>
    (exchange.result.metadata.usingMockData <=> exchange.usedMock)

ConfidenceSum(items) == SumOf([i \in 1..Len(items) |-> items[i].confidence], 1)

\* C15: the overall confidence in the metadata of every result the
\* orchestrator returns, the placeholder included, is the arithmetic mean of
\* the confidences of that result's items, and 0 when it has no items.
C15_OverallConfidence ==
  (exchange.handled /\ exchange.status = 200) =>
    LET items == exchange.result.items
        overall == exchange.result.metadata.confidence
    IN IF items = <<>>
       THEN overall.num = 0
       ELSE overall.num * 100 * Len(items) = overall.den * ConfidenceSum(items)

\* an analyzer result with two items of confidence 0.5 and 0.8
C15_Witness ==
  /\ exchange.handled
  /\ exchange.status = 200
  /\ ~exchange.usedMock
  /\ Len(exchange.result.items) = 2
  /\ exchange.result.items[1].confidence # exchange.result.items[2].confidence

\* C16: every item of a returned result has x and y in [0, 100] and
\* confidence in [0, 1]; an analyzer payload outside these ranges does not
\* get into the result.
C16_ItemsWithinBounds ==
  (exchange.handled /\ exchange.status = 200) =>
    \A i \in 1..Len(exchange.result.items) :
      LET item == exchange.result.items[i]
      IN /\ item.x >= 0 /\ item.x <= 100
         /\ item.y >= 0 /\ item.y <= 100
         /\ item.confidence >= 0 /\ item.confidence <= 100

AxesForced == exchange.body.force_axes.x # "" /\ exchange.body.force_axes.y # ""

\* C17: when the request forces the axis labels, the quadrants of the
\* returned result are named with the forced x and y labels.
C17_ForcedAxesUsed ==
  (exchange.handled /\ exchange.status = 200 /\ AxesForced) =>
    \A i \in 1..Len(exchange.result.quadrants) :
      /\ exchange.result.quadrants[i].name[2] = exchange.body.force_axes.x
      /\ exchange.result.quadrants[i].name[4] = exchange.body.force_axes.y

\* the request has no text, a text shorter than 10 once trimmed or longer
\* than 50,000, or a domain hint outside the five domains
Rejectable(body) ==
  \/ ~body.text.present
  \/ body.text.trimmed < 10
  \/ body.text.length > 50000
  \/ (body.domain_hint # "" /\ body.domain_hint \notin validDomains)

TooLargeOrUnsupported(file) ==
  \/ file.size > 10 * 1024 * 1024
  \/ file.type \notin {"text/plain", "application/pdf", "application/msword",
       "application/vnd.openxmlformats-officedocument.wordprocessingml.document"}

AlertedFor(file) ==
  \E k \in DOMAIN alerts :
    alerts[k] = [name |-> file.name, message |-> validateFile(file).error]

\* The files of the current batch the loop of onDrop has already passed.
Passed ==
  IF drop.active
  THEN { drop.acceptedFiles[k] : k \in 1 .. (drop.awaiting - 1) }
  ELSE {}

\* C20: validateFile rejects every file larger than 10MB and every file whose
\* declared MIME type is not plain text, PDF, DOCX or DOC, and the upload flow
\* never starts processFile for such a file: each file processFile was ever
\* called with is within the limit and of a supported type, every rejected
\* file the loop has passed raised an alert with validateFile's message, and
\* no such file reaches the store.
C20_RejectedBeforeExtraction ==
  /\ \A file \in FilePool : TooLargeOrUnsupported(file) => ~validateFile(file).valid
  /\ \A k \in DOMAIN started : ~TooLargeOrUnsupported(started[k])
  /\ \A file \in Passed : TooLargeOrUnsupported(file) => AlertedFor(file)
  /\ \A k \in DOMAIN uploadedFiles :
       ~TooLargeOrUnsupported([size |-> uploadedFiles[k].size,
                               type |-> uploadedFiles[k].type])

\* An oversized file was dropped ahead of a file of exactly 10MB: the first
\* raised the size alert, extraction started for the second alone.
C20_Witness ==
  /\ drop.active
  /\ drop.acceptedFiles = <<FileHuge, FileReport>>
  /\ started = <<FileReport>>
  /\ alerts = <<[name |-> "huge.docx", message |-> "File size must be less than 10MB"]>>

\* A file of the batch that is valid and extractable.
Sound(file) == ~TooLargeOrUnsupported(file) /\ Extraction(file).error = ""

Accepted(file) == ~TooLargeOrUnsupported(file)

\* The last n entries of uploadedFiles in the state a step leads to.
LastAdded(n) == [k \in 1 .. n |-> uploadedFiles'[Len(uploadedFiles') - n + k]]

\* C21: a validation failure or extraction failure of one file never keeps
\* the other files of the batch from being processed.  While a batch is
\* being processed, processFile has been called for exactly the accepted
\* files among those the loop has reached, in batch order; onDrop ends without
\* an await only for a batch with no accepted file; and when the
\* handler ends, the files it added to uploadedFiles are the accepted files of
\* the whole batch in batch order, each valid and extractable one among them
\* with its extracted text.
C21_BatchContinues ==
  /\ [](drop.active =>
         /\ Len(started) >= Len(SelectSeq(SubSeq(drop.acceptedFiles, 1, drop.awaiting), Accepted))
         /\ SubSeq(started,
                   Len(started) + 1
                     - Len(SelectSeq(SubSeq(drop.acceptedFiles, 1, drop.awaiting), Accepted)),
                   Len(started))
              = SelectSeq(SubSeq(drop.acceptedFiles, 1, drop.awaiting), Accepted))
  /\ [][(drops' # drops /\ ~drop'.active) =>
          \A batch \in Batches : onDrop(batch) => SelectSeq(batch, Accepted) = <<>>]_vars
  /\ [][(drop.active /\ ~drop'.active) =>
          /\ Len(uploadedFiles') >= Len(SelectSeq(drop.acceptedFiles, Accepted))
          /\ \A k \in 1 .. Len(SelectSeq(drop.acceptedFiles, Accepted)) :
               /\ LastAdded(Len(SelectSeq(drop.acceptedFiles, Accepted)))[k].name
                    = SelectSeq(drop.acceptedFiles, Accepted)[k].name
               /\ Sound(SelectSeq(drop.acceptedFiles, Accepted)[k]) =>
                    LastAdded(Len(SelectSeq(drop.acceptedFiles, Accepted)))[k].content
                      = SelectSeq(drop.acceptedFiles, Accepted)[k].chars]_vars

\* A PDF whose extraction fails was dropped ahead of a text file: the batch
\* has ended and the text file is in the store with its text.
C21_Witness ==
  /\ ~drop.active
  /\ started = <<FileScan, FileNotes>>
  /\ Len(uploadedFiles) = 2
  /\ uploadedFiles[2].name = "notes.txt"
  /\ uploadedFiles[2].content = 150

\* The processFile calls whose promise has settled.
Settled == 1 .. (Len(started) - (IF drop.active THEN 1 ELSE 0))

\* C22: a file whose processFile result carries an error is reported as
\* failed (an alert names it) and is not added to uploadedFiles.
C22_ExtractionFailureReported ==
  \A k \in Settled :
    Extraction(started[k]).error # "" =>
      /\ \E a \in DOMAIN alerts : alerts[a].name = started[k].name
      /\ \A u \in DOMAIN uploadedFiles : uploadedFiles[u].name # started[k].name

(***************************************************************************)
(* Properties of the in-memory store (SpecServer) and of the health route    *)
(* (SpecMock)                                                               *)
(***************************************************************************)
\* What a cleanup step with the given cutoff must do to one map of the store.
Evicted(before, after, cutoff) ==
  /\ \A entry \in SeqRange(before) :
       IF entry.createdAt < cutoff
       THEN entry \notin SeqRange(after)
       ELSE entry \in SeqRange(after)
  /\ SeqRange(after) \subseteq SeqRange(before)
  /\ Len(after) = Cardinality(SeqRange(after))

\* C23: after cleanup(olderThanDays) has run, no file and no analysis created
\* before now minus olderThanDays remains; a cleanup step keeps every entry
\* created at or after the cutoff, unchanged, adds none and leaves the clock
\* and the issued ids alone; storing under one key leaves the entries of the
\* other keys as they were.
C23_Cleanup ==
  /\ [](lastCleanup.ran =>
          /\ \A k \in DOMAIN dbFiles : dbFiles[k].createdAt >= lastCleanup.cutoff
          /\ \A k \in DOMAIN analyses : analyses[k].createdAt >= lastCleanup.cutoff)
  /\ [][\A olderThanDays \in {1, 7} :
          cleanup(olderThanDays) =>
            /\ Evicted(dbFiles, dbFiles', now - olderThanDays)
            /\ Evicted(analyses, analyses', now - olderThanDays)
            /\ UNCHANGED <<now, idsIssued>>]_vars
  /\ [][\A id \in {"f1", "f2"} :
          storeUploadedFile(id, "text") =>
            /\ \A entry \in SeqRange(dbFiles) :
                 entry.id # id => entry \in SeqRange(dbFiles')
            /\ analyses' = analyses]_vars

\* The default cleanup of the interval ran on day 8: it removed an entry of
\* day 0 and kept the file created on day 1, the cutoff itself.
C23_Witness ==
  /\ lastCleanup.ran
  /\ lastCleanup.removed > 0
  /\ lastCleanup.cutoff = 1
  /\ now = 8
  /\ \E k \in DOMAIN dbFiles : dbFiles[k].createdAt = 1

\* C30: GET /api/health answers 'healthy' only when no service is impaired:
\* with an API key and a failed connection test the status is not 'healthy'.
C30_HealthyOnlyWhenUnimpaired ==
  health.status = "healthy" => health.openai = "operational"

(***************************************************************************)
(* Properties of the analysis route's storage and placeholder (SpecApi,     *)
(* SpecMock)                                                                *)
(***************************************************************************)
\* C24: when storing the analysis fails, the request is still answered 200
\* with the analysis and its metadata (analysisId, domain, textLength); a
\* request that passed validation and was not stored is never an error
\* response.
C24_StorageFailureTolerated ==
  (exchange.handled /\ exchange.body.parsable /\ ~Rejectable(exchange.body)
     /\ ~exchange.stored) =>
    /\ exchange.status = 200
    /\ exchange.error = ""
    /\ exchange.result.metadata.analysisId = idsIssued
    /\ exchange.result.metadata.domain
         = (IF exchange.body.domain_hint = "" THEN "auto" ELSE exchange.body.domain_hint)
    /\ exchange.result.metadata.textLength = exchange.body.text.length
    /\ \A k \in DOMAIN analyses : analyses[k].id # idsIssued

\* the store failed on an analyzer result of one item: answered 200
C24_Witness ==
  /\ exchange.handled
  /\ exchange.status = 200
  /\ ~exchange.stored
  /\ ~exchange.usedMock
  /\ analyses = <<>>
  /\ exchange.result.metadata.analysisId = 1

Notes ==
  { "Note: This is a demonstration analysis. Configure OpenAI API key for full AI-powered analysis.",
    "Demo Mode: This is sample analysis. Configure OpenAI API key for AI-powered analysis." }

\* The stored analyses that are placeholder results.
StoredMocks == { k \in DOMAIN analyses : analyses[k].result.insights[1] \in Notes }

\* C25: every placeholder result returned holds exactly one note, as its
\* first insight, followed by the three fixed placeholder insights, whatever
\* requests came before; and placeholder results for the same domain hint
\* have the same items and quadrants.
C25_OneNotePerPlaceholder ==
  (exchange.handled /\ exchange.status = 200 /\ exchange.usedMock) =>
    /\ Len(exchange.result.insights) = 4
    /\ exchange.result.insights[1] \in Notes
    /\ SubSeq(exchange.result.insights, 2, 4)
         = << "Most items cluster in the high-impact region",
              "There is a clear separation between high and low probability items",
              "Focus attention on the high-probability, high-impact quadrant first" >>
    /\ \A k \in StoredMocks :
         analyses[k].domain = exchange.result.metadata.domain =>
           /\ analyses[k].result.items = exchange.result.items
           /\ analyses[k].result.quadrants = exchange.result.quadrants
           /\ Len(analyses[k].result.insights) = 4

\* a second placeholder result for the domain of the first, which is stored
C25_Witness ==
  /\ exchange.handled
  /\ exchange.usedMock
  /\ idsIssued = 2
  /\ Len(analyses) = 2
  /\ analyses[1].domain = exchange.result.metadata.domain
  /\ analyses[1].id = 1

(***************************************************************************)
(* The insights panel on caller-supplied quadrant lists (SpecResults)       *)
(***************************************************************************)
\* C28: generateDataInsights returns an insight sequence without throwing for
\* every quadrant list, an empty one included, whether or not there are
\* items: the insights view never crashes.
C28_InsightsNeverThrow ==
  viewMode = "insights" =>
    /\ ~view.crashed
    /\ ~generateDataInsights(result.items, result.quadrants, result.axes).threw

(***************************************************************************)
(* The analysis flow of the client (SpecClient)                             *)
(***************************************************************************)
\* C26: isAnalyzing is true in every state in which a request started by
\* handleAnalyze is outstanding, so at most one analysis request is in flight
\* at any time.
C26_OneRequestInFlight ==
  /\ inFlight # <<>> => isAnalyzing
  /\ Len(inFlight) <= 1

\* C27: under any interleaving of handleAnalyze runs and their responses,
\* analysisResult and analysisError are never both non-null.
C27_ResultXorError ==
  ~(analysisResult.present /\ analysisError # "")

\* C29: every request body handleAnalyze sends while canAnalyze is true has
\* a text of trimmed length at least 10 and total length at most 50,000, so
\* it is never rejected with 400 for its length.
C29_AllowedRequestPassesLength ==
  \A k \in DOMAIN inFlight :
    /\ inFlight[k].text.present
    /\ inFlight[k].text.trimmed >= 10
    /\ inFlight[k].text.length <= 50000


====
